---- MODULE Spec2Model ----
(***************************************************************************)
(* SQL Diff Highlighter: the tokenizer (splitText), the positional aligner *)
(* (computeDiff), the block grouper (groupDiffBlocks), the statistics and  *)
(* the clipboard handler of src/components/SQLDiffHighlighter.tsx, and the *)
(* second variant of the widget in src/unnamed/part_000.                   *)
(*                                                                         *)
(* A text is a sequence of one-character strings; a token is a text; the   *)
(* JavaScript empty string "" is the empty sequence << >>.                 *)
(***************************************************************************)
EXTENDS Integers, Sequences, FiniteSets, TLC

VARIABLES
    mounted,             \* which of the two component files is rendered
    originalSQL,         \* useState, SQLDiffHighlighter.tsx:26
    modifiedSQL,         \* useState, SQLDiffHighlighter.tsx:27
    comparisonType,      \* useState, SQLDiffHighlighter.tsx:28
    showUnchanged,       \* useState, SQLDiffHighlighter.tsx:29
    diffResult,          \* useMemo,  SQLDiffHighlighter.tsx:159
    stats,               \* useMemo,  SQLDiffHighlighter.tsx:272
    query1,              \* useState, part_000:16
    query2,              \* useState, part_000:17
    splitType,           \* useState, part_000:18
    diffResult2,         \* useMemo,  part_000:35 (named diffResult there)
    original,            \* computeDiff's first argument
    modified,            \* computeDiff's second argument
    originalIndex,       \* computeDiff local, SQLDiffHighlighter.tsx:48
    modifiedIndex,       \* computeDiff local, SQLDiffHighlighter.tsx:49
    originalLineNumber,  \* computeDiff local, SQLDiffHighlighter.tsx:50
    modifiedLineNumber,  \* computeDiff local, SQLDiffHighlighter.tsx:51
    result,              \* computeDiff local, SQLDiffHighlighter.tsx:47
    blocks,              \* groupDiffBlocks' return value, SQLDiffHighlighter.tsx:117
    pc,                  \* position inside the diffResult callback
    copies,              \* the handleCopy invocations made so far
    alerts,              \* the alert() dialogs shown so far
    consoleErrors,       \* the console.error() lines written so far
    unhandled            \* rejections that escaped handleCopy

uiVars   == <<mounted, originalSQL, modifiedSQL, comparisonType, showUnchanged,
              diffResult, stats, query1, query2, splitType, diffResult2>>
loopVars == <<original, modified, originalIndex, modifiedIndex,
              originalLineNumber, modifiedLineNumber, result, blocks, pc>>
copyVars == <<copies, alerts, consoleErrors, unhandled>>
vars     == <<uiVars, loopVars, copyVars>>

----------------------------------------------------------------------------
(* Bounds of the model                                                     *)

\* longest text typed into a textarea
MaxLen == 3
\* longest token sequence handed to computeDiff directly
MaxTokens == 3
\* handleCopy invocations in one run
MaxCopies == 2
\* longest text typed while copy actions are explored
CopyTextLen == 1

Alphabet == {"a", " ", "\n"}

ComparisonTypes == {"Lines", "Words", "Characters"}

Empty == << >>

\* JavaScript's \s restricted to the alphabet
IsSpace(c) == c \in {" ", "\n"}

----------------------------------------------------------------------------
(* Tokenizer                                                               *)

RECURSIVE SplitNewline(_, _, _)
\* text.split("\n"): parts closed so far, cur the piece being read
SplitNewline(text, parts, cur) ==
    IF text = Empty THEN Append(parts, cur)
    ELSE IF Head(text) = "\n"
         THEN SplitNewline(Tail(text), Append(parts, cur), Empty)
         ELSE SplitNewline(Tail(text), parts, Append(cur, Head(text)))

RECURSIVE SplitSpace(_, _, _, _, _)
\* text.split(/\s+/) (capture = FALSE) and text.split(/(\s+)/) (capture =
\* TRUE): sep is the run of whitespace being matched; a capturing group
\* splices the matched separator into the output array.
SplitSpace(text, parts, cur, sep, capture) ==
    LET closed == IF capture THEN parts \o <<cur, sep>> ELSE Append(parts, cur) IN
    IF text = Empty
    THEN IF sep = Empty THEN Append(parts, cur) ELSE Append(closed, Empty)
    ELSE IF IsSpace(Head(text))
         THEN SplitSpace(Tail(text), parts, cur, Append(sep, Head(text)), capture)
         ELSE IF sep = Empty
              THEN SplitSpace(Tail(text), parts, Append(cur, Head(text)), Empty, capture)
              ELSE SplitSpace(Tail(text), closed, <<Head(text)>>, Empty, capture)

\* .filter((part) => part.length > 0)
FilterNonEmpty(parts) == SelectSeq(parts, LAMBDA part : Len(part) > 0)

\* text.split("")
SplitChars(text) == [i \in 1..Len(text) |-> <<text[i]>>]

\* splitText of SQLDiffHighlighter.tsx
splitText(text, type) ==
    CASE type = "Lines"      -> SplitNewline(text, << >>, Empty)
      [] type = "Words"      -> FilterNonEmpty(SplitSpace(text, << >>, Empty, Empty, TRUE))
      [] type = "Characters" -> SplitChars(text)
      [] OTHER               -> << >>

\* splitText of part_000
splitText2(text, type) ==
    CASE type = "Lines"      -> SplitNewline(text, << >>, Empty)
      [] type = "Words"      -> FilterNonEmpty(SplitSpace(text, << >>, Empty, Empty, FALSE))
      [] type = "Characters" -> SplitChars(text)
      [] OTHER               -> << >>

----------------------------------------------------------------------------
(* Aligner: computeDiff                                                    *)

\* arr[index] || "": undefined (past the end) and "" both give ""
ItemOr(arr, index) ==
    IF index < Len(arr) /\ arr[index + 1] # Empty THEN arr[index + 1] ELSE Empty

DiffLine(type, originalContent, modifiedContent, oln, mln) ==
    [type |-> type,
     originalContent |-> originalContent,
     modifiedContent |-> modifiedContent,
     originalLineNumber |-> oln,
     modifiedLineNumber |-> mln]

\* LoopCond that stops as soon as either side is exhausted
LoopCondBothRemaining(O, M, oi, mi) == oi < Len(O) /\ mi < Len(M)

\* the loop condition of the while statement
LoopCond(O, M, oi, mi) == oi < Len(O) \/ mi < Len(M)

\* Branch with the equality test moved ahead of the exhaustion tests
BranchEqualityFirst(O, M, oi, mi) ==
    IF ItemOr(O, oi) = ItemOr(M, mi) THEN "unchanged"
    ELSE IF oi >= Len(O) THEN "added"
    ELSE IF mi >= Len(M) THEN "removed"
    ELSE "modified"

\* the if / else-if chain of the loop body, in the order it is tested
Branch(O, M, oi, mi) ==
    IF oi >= Len(O) THEN "added"
    ELSE IF mi >= Len(M) THEN "removed"
    ELSE IF ItemOr(O, oi) = ItemOr(M, mi) THEN "unchanged"
    ELSE "modified"

\* PushedLine whose 'removed' pair takes its content from the modified side
PushedLineRemovedFromModified(type, originalItem, modifiedItem, oln, mln) ==
    CASE type = "added"     -> DiffLine("added", Empty, modifiedItem, oln, mln)
      [] type = "removed"   -> DiffLine("removed", modifiedItem, Empty, oln, mln)
      [] type = "unchanged" -> DiffLine("unchanged", originalItem, modifiedItem, oln, mln)
      [] type = "modified"  -> DiffLine("modified", originalItem, modifiedItem, oln, mln)

\* the pair pushed by the branch taken
PushedLine(type, originalItem, modifiedItem, oln, mln) ==
    CASE type = "added"     -> DiffLine("added", Empty, modifiedItem, oln, mln)
      [] type = "removed"   -> DiffLine("removed", originalItem, Empty, oln, mln)
      [] type = "unchanged" -> DiffLine("unchanged", originalItem, modifiedItem, oln, mln)
      [] type = "modified"  -> DiffLine("modified", originalItem, modifiedItem, oln, mln)

\* AdvancesOriginal that holds the original cursor on a 'modified' pair
AdvancesOriginalHeldOnModified(type) == type \in {"removed", "unchanged"}

\* which cursors the branch taken advances
AdvancesOriginal(type) == type \in {"removed", "unchanged", "modified"}
AdvancesModified(type) == type \in {"added", "unchanged", "modified"}

\* Bump that counts an advance under every granularity
BumpAnyGranularity(n, advances, ct) == IF advances THEN n + 1 ELSE n

\* if (comparisonType === "Lines") n++
Bump(n, advances, ct) == IF advances /\ ct = "Lines" THEN n + 1 ELSE n

\* one iteration of the while loop on the locals s, with the closure's
\* comparisonType ct
LoopBody(O, M, ct, s) ==
    LET originalItem == ItemOr(O, s.originalIndex)
        modifiedItem == ItemOr(M, s.modifiedIndex)
        type == Branch(O, M, s.originalIndex, s.modifiedIndex)
    IN  [originalIndex |-> IF AdvancesOriginal(type) THEN s.originalIndex + 1
                           ELSE s.originalIndex,
         modifiedIndex |-> IF AdvancesModified(type) THEN s.modifiedIndex + 1
                           ELSE s.modifiedIndex,
         originalLineNumber |-> Bump(s.originalLineNumber, AdvancesOriginal(type), ct),
         modifiedLineNumber |-> Bump(s.modifiedLineNumber, AdvancesModified(type), ct),
         result |-> Append(s.result,
                           PushedLine(type, originalItem, modifiedItem,
                                      s.originalLineNumber, s.modifiedLineNumber))]

\* the locals as declared before the loop
LoopStart ==
    [originalIndex |-> 0, modifiedIndex |-> 0,
     originalLineNumber |-> 1, modifiedLineNumber |-> 1, result |-> << >>]

RECURSIVE RunLoop(_, _, _, _)
RunLoop(O, M, ct, s) ==
    IF LoopCond(O, M, s.originalIndex, s.modifiedIndex)
    THEN RunLoop(O, M, ct, LoopBody(O, M, ct, s))
    ELSE s

computeDiff(O, M, ct) == RunLoop(O, M, ct, LoopStart).result

----------------------------------------------------------------------------
(* Block grouper: groupDiffBlocks                                          *)

IsChanged(line) == line.type # "unchanged"

\* NewBlock that opens the block without the line that opened it
NewBlockWithoutLine(type, line) ==
    [type |-> type, lines |-> << >>,
     startLine |-> line.originalLineNumber, endLine |-> line.originalLineNumber]

\* the block literal of a new block
NewBlock(type, line) ==
    [type |-> type, lines |-> <<line>>,
     startLine |-> line.originalLineNumber, endLine |-> line.originalLineNumber]

\* ContinueBlock that pushes the line and leaves endLine as it was
ContinueBlockStaleEnd(block, line) ==
    [block EXCEPT !.lines = Append(@, line)]

\* currentBlock.lines.push(line); currentBlock.endLine = line.originalLineNumber
ContinueBlock(block, line) ==
    [block EXCEPT !.lines = Append(@, line), !.endLine = line.originalLineNumber]

\* the forEach callback; currentBlock aliases the last element of the blocks array bs
GroupStep(bs, line) ==
    LET noCurrent == bs = << >>
        currentBlock == bs[Len(bs)]
        type == IF IsChanged(line) THEN "changed" ELSE "unchanged"
        other == IF IsChanged(line) THEN "unchanged" ELSE "changed"
    IN  IF noCurrent \/ currentBlock.type = other
        THEN Append(bs, NewBlock(type, line))
        ELSE [bs EXCEPT ![Len(bs)] = ContinueBlock(currentBlock, line)]

RECURSIVE GroupFrom(_, _, _)
GroupFrom(diffLines, index, bs) ==
    IF index > Len(diffLines) THEN bs
    ELSE GroupFrom(diffLines, index + 1, GroupStep(bs, diffLines[index]))

groupDiffBlocks(diffLines) == GroupFrom(diffLines, 1, << >>)

\* DiffResultOf that always splits the modified text by lines
DiffResultOfModifiedByLines(oSQL, mSQL, ct) ==
    IF oSQL = Empty /\ mSQL = Empty THEN << >>
    ELSE groupDiffBlocks(computeDiff(splitText(oSQL, ct), splitText(mSQL, "Lines"), ct))

\* the diffResult memo of SQLDiffHighlighter.tsx
DiffResultOf(oSQL, mSQL, ct) ==
    IF oSQL = Empty /\ mSQL = Empty THEN << >>
    ELSE groupDiffBlocks(computeDiff(splitText(oSQL, ct), splitText(mSQL, ct), ct))

----------------------------------------------------------------------------
(* Statistics                                                              *)

\* CountInBlock that counts every line of a changed block, whatever its type
CountInBlockAnyChanged(block, t) ==
    IF block.type = "changed" THEN Len(block.lines) ELSE 0

\* block.lines.filter((line) => line.type === t).length
CountInBlock(block, t) == Len(SelectSeq(block.lines, LAMBDA line : line.type = t))

RECURSIVE ReduceCount(_, _, _, _)
\* diffResult.reduce((acc, block) => acc + count, 0)
ReduceCount(diff, index, acc, t) ==
    IF index > Len(diff) THEN acc
    ELSE ReduceCount(diff, index + 1, acc + CountInBlock(diff[index], t), t)

\* the stats memo
StatsOf(diff) ==
    [added    |-> ReduceCount(diff, 1, 0, "added"),
     removed  |-> ReduceCount(diff, 1, 0, "removed"),
     modified |-> ReduceCount(diff, 1, 0, "modified")]

----------------------------------------------------------------------------
(* The second variant's diff: the diffResult memo of part_000              *)

DiffItem(value, type, index) == [value |-> value, type |-> type, index |-> index]

\* the body of the for loop at index i, on d = [diff1, diff2]
ItemStep(parts1, parts2, i, d) ==
    LET part1 == ItemOr(parts1, i)
        part2 == ItemOr(parts2, i)
        t1 == IF i >= Len(parts2) THEN "removed" ELSE "changed"
        t2 == IF i >= Len(parts1) THEN "added" ELSE "changed"
        a1 == IF part1 # Empty THEN Append(d.diff1, DiffItem(part1, t1, i)) ELSE d.diff1
        a2 == IF part2 # Empty THEN Append(d.diff2, DiffItem(part2, t2, i)) ELSE d.diff2
        b1 == IF part1 = Empty /\ part2 # Empty
              THEN Append(a1, DiffItem(Empty, "removed", i)) ELSE a1
        b2 == IF part2 = Empty /\ part1 # Empty
              THEN Append(a2, DiffItem(Empty, "added", i)) ELSE a2
    IN  IF part1 = part2
        THEN [diff1 |-> Append(d.diff1, DiffItem(part1, "unchanged", i)),
              diff2 |-> Append(d.diff2, DiffItem(part2, "unchanged", i))]
        ELSE [diff1 |-> b1, diff2 |-> b2]

RECURSIVE ItemLoop(_, _, _, _, _)
ItemLoop(parts1, parts2, i, maxLength, d) ==
    IF i < maxLength
    THEN ItemLoop(parts1, parts2, i + 1, maxLength, ItemStep(parts1, parts2, i, d))
    ELSE d

Max(a, b) == IF a >= b THEN a ELSE b

DiffResult2Of(q1, q2, st) ==
    LET parts1 == splitText2(q1, st)
        parts2 == splitText2(q2, st)
    IN  ItemLoop(parts1, parts2, 0, Max(Len(parts1), Len(parts2)),
                 [diff1 |-> << >>, diff2 |-> << >>])

----------------------------------------------------------------------------
(* The rendered component: state, handlers and memos                       *)

Main == "SQLDiffHighlighter.tsx"
Alt  == "part_000"

\* the values a textarea's onChange delivers after one keystroke at the end
\* of text: a character typed or the last character deleted
Edits(text, bound) ==
    {Append(text, c) : c \in IF Len(text) < bound THEN Alphabet ELSE {}}
    \cup {SubSeq(text, 1, Len(text) - 1) : i \in IF text # Empty THEN {1} ELSE {}}

InitUI ==
    /\ mounted \in {Main, Alt}
    /\ originalSQL = Empty
    /\ modifiedSQL = Empty
    /\ comparisonType = "Lines"
    /\ showUnchanged = FALSE
    /\ diffResult = DiffResultOf(Empty, Empty, "Lines")
    /\ stats = StatsOf(diffResult)
    /\ query1 = Empty
    /\ query2 = Empty
    /\ splitType = "Lines"
    /\ diffResult2 = DiffResult2Of(Empty, Empty, "Lines")

InitIdleLoop ==
    /\ original = << >>
    /\ modified = << >>
    /\ originalIndex = 0
    /\ modifiedIndex = 0
    /\ originalLineNumber = 1
    /\ modifiedLineNumber = 1
    /\ result = << >>
    /\ blocks = << >>
    /\ pc = "idle"

InitNoCopy ==
    /\ copies = << >>
    /\ alerts = << >>
    /\ consoleErrors = << >>
    /\ unhandled = << >>

Init == InitUI /\ InitIdleLoop /\ InitNoCopy

\* a render of SQLDiffHighlighter.tsx after its state changed to (o, m, ct):
\* both memos are recomputed from the new state
Rerender(o, m, ct) ==
    /\ diffResult' = DiffResultOf(o, m, ct)
    /\ stats' = StatsOf(diffResult')

SetOriginalSQL(value) ==
    /\ mounted = Main
    /\ originalSQL' = value
    /\ Rerender(value, modifiedSQL, comparisonType)
    /\ UNCHANGED <<mounted, modifiedSQL, comparisonType, showUnchanged,
                   query1, query2, splitType, diffResult2, loopVars, copyVars>>

SetModifiedSQL(value) ==
    /\ mounted = Main
    /\ modifiedSQL' = value
    /\ Rerender(originalSQL, value, comparisonType)
    /\ UNCHANGED <<mounted, originalSQL, comparisonType, showUnchanged,
                   query1, query2, splitType, diffResult2, loopVars, copyVars>>

SetComparisonType(value) ==
    /\ mounted = Main
    /\ value # comparisonType
    /\ comparisonType' = value
    /\ Rerender(originalSQL, modifiedSQL, value)
    /\ UNCHANGED <<mounted, originalSQL, modifiedSQL, showUnchanged,
                   query1, query2, splitType, diffResult2, loopVars, copyVars>>

\* setShowUnchanged(!showUnchanged): no memo depends on it
ToggleShowUnchanged ==
    /\ mounted = Main
    /\ showUnchanged' = ~showUnchanged
    /\ UNCHANGED <<mounted, originalSQL, modifiedSQL, comparisonType, diffResult, stats,
                   query1, query2, splitType, diffResult2, loopVars, copyVars>>

SetQuery1(value) ==
    /\ mounted = Alt
    /\ query1' = value
    /\ diffResult2' = DiffResult2Of(value, query2, splitType)
    /\ UNCHANGED <<mounted, originalSQL, modifiedSQL, comparisonType, showUnchanged,
                   diffResult, stats, query2, splitType, loopVars, copyVars>>

SetQuery2(value) ==
    /\ mounted = Alt
    /\ query2' = value
    /\ diffResult2' = DiffResult2Of(query1, value, splitType)
    /\ UNCHANGED <<mounted, originalSQL, modifiedSQL, comparisonType, showUnchanged,
                   diffResult, stats, query1, splitType, loopVars, copyVars>>

SetSplitType(value) ==
    /\ mounted = Alt
    /\ value # splitType
    /\ splitType' = value
    /\ diffResult2' = DiffResult2Of(query1, query2, value)
    /\ UNCHANGED <<mounted, originalSQL, modifiedSQL, comparisonType, showUnchanged,
                   diffResult, stats, query1, query2, loopVars, copyVars>>

\* the user's events on the form, with texts of at most bound characters
UIEvent(bound) ==
    \/ \E value \in Edits(originalSQL, bound) : SetOriginalSQL(value)
    \/ \E value \in Edits(modifiedSQL, bound) : SetModifiedSQL(value)
    \/ \E value \in ComparisonTypes : SetComparisonType(value)
    \/ ToggleShowUnchanged
    \/ \E value \in Edits(query1, bound) : SetQuery1(value)
    \/ \E value \in Edits(query2, bound) : SetQuery2(value)
    \/ \E value \in ComparisonTypes : SetSplitType(value)

Next == UIEvent(MaxLen)

Spec == Init /\ [][Next]_vars

----------------------------------------------------------------------------
(* Clipboard: handleCopy                                                   *)

Copied == "Copied to clipboard!"
Failed == "Failed to copy to clipboard"

\* line.modifiedContent || line.originalContent, the per-line copy button
LineCopyText(line) ==
    IF line.modifiedContent # Empty THEN line.modifiedContent ELSE line.originalContent

\* the texts the rendered copy buttons pass to handleCopy
CopyTargets ==
    IF mounted = Main
    THEN IF originalSQL # Empty \/ modifiedSQL # Empty
         THEN {modifiedSQL}
              \cup UNION {{LineCopyText(diffResult[b].lines[k]) :
                               k \in {j \in 1..Len(diffResult[b].lines) :
                                          IsChanged(diffResult[b].lines[j])}} :
                           b \in 1..Len(diffResult)}
         ELSE {}
    ELSE IF query1 # Empty \/ query2 # Empty THEN {query1, query2} ELSE {}

\* the handler's effects so far
Effects == [alerts |-> alerts, consoleErrors |-> consoleErrors, unhandled |-> unhandled]

\* after the await: alert("Copied to clipboard!")
AfterAwait(i, e) ==
    [e EXCEPT !.alerts = Append(@, [copy |-> i, message |-> Copied])]

\* a handler without its try / catch: the rejection escapes
CatchBlockMissing(i, e) ==
    [e EXCEPT !.unhandled = Append(@, i)]

\* the catch block: console.error (SQLDiffHighlighter.tsx only), then
\* alert("Failed to copy to clipboard")
CatchBlock(i, e) ==
    [e EXCEPT !.consoleErrors = IF mounted = Main THEN Append(@, i) ELSE @,
              !.alerts = Append(@, [copy |-> i, message |-> Failed])]

SetEffects(e) ==
    /\ alerts' = e.alerts
    /\ consoleErrors' = e.consoleErrors
    /\ unhandled' = e.unhandled

\* handleCopy(text) up to its await: writeText returned a promise
HandleCopy(text) ==
    /\ Len(copies) < MaxCopies
    /\ text \in CopyTargets
    /\ copies' = Append(copies, "pending")
    /\ UNCHANGED <<uiVars, loopVars, alerts, consoleErrors, unhandled>>

\* handleCopy(text) where navigator.clipboard.writeText throws inside the try
\* (no Clipboard API in this context): the catch block runs at once
HandleCopyThrows(text) ==
    /\ Len(copies) < MaxCopies
    /\ text \in CopyTargets
    /\ copies' = Append(copies, "rejected")
    /\ SetEffects(CatchBlock(Len(copies) + 1, Effects))
    /\ UNCHANGED <<uiVars, loopVars>>

\* the promise of invocation i is fulfilled: the handler resumes after the await
ClipboardFulfils(i) ==
    /\ copies[i] = "pending"
    /\ copies' = [copies EXCEPT ![i] = "fulfilled"]
    /\ SetEffects(AfterAwait(i, Effects))
    /\ UNCHANGED <<uiVars, loopVars>>

\* the promise of invocation i is rejected: the handler resumes in its catch
ClipboardRejects(i) ==
    /\ copies[i] = "pending"
    /\ copies' = [copies EXCEPT ![i] = "rejected"]
    /\ SetEffects(CatchBlock(i, Effects))
    /\ UNCHANGED <<uiVars, loopVars>>

CopyEvent ==
    \/ \E text \in CopyTargets : HandleCopy(text)
    \/ \E text \in CopyTargets : HandleCopyThrows(text)
    \/ \E i \in 1..Len(copies) : ClipboardFulfils(i)
    \/ \E i \in 1..Len(copies) : ClipboardRejects(i)

NextCopy == UIEvent(CopyTextLen) \/ CopyEvent

SpecCopy == Init /\ [][NextCopy]_vars

----------------------------------------------------------------------------
(* The diffResult callback step by step: computeDiff's while loop, its     *)
(* return, and the grouping of what it returned                            *)

\* the tokens handed to computeDiff directly: "", "a" and " "
LoopTokens == {Empty, <<"a">>, <<" ">>}

RECURSIVE SeqsUpTo(_, _)
\* the sequences over S of length at most n
SeqsUpTo(S, n) ==
    IF n = 0 THEN {<< >>}
    ELSE LET shorter == SeqsUpTo(S, n - 1)
         IN  shorter \cup {Append(q, x) : q \in {r \in shorter : Len(r) = n - 1}, x \in S}

TokenSeqs == SeqsUpTo(LoopTokens, MaxTokens)

\* computeDiff(original, modified) is entered with comparisonType in scope
InitLoop ==
    /\ mounted = Main
    /\ originalSQL = Empty
    /\ modifiedSQL = Empty
    /\ comparisonType \in ComparisonTypes
    /\ showUnchanged = FALSE
    /\ diffResult = << >>
    /\ stats = StatsOf(<< >>)
    /\ query1 = Empty
    /\ query2 = Empty
    /\ splitType = "Lines"
    /\ diffResult2 = DiffResult2Of(Empty, Empty, "Lines")
    /\ original \in TokenSeqs
    /\ modified \in TokenSeqs
    /\ originalIndex = LoopStart.originalIndex
    /\ modifiedIndex = LoopStart.modifiedIndex
    /\ originalLineNumber = LoopStart.originalLineNumber
    /\ modifiedLineNumber = LoopStart.modifiedLineNumber
    /\ result = LoopStart.result
    /\ blocks = << >>
    /\ pc = "while"
    /\ InitNoCopy

Locals ==
    [originalIndex |-> originalIndex, modifiedIndex |-> modifiedIndex,
     originalLineNumber |-> originalLineNumber,
     modifiedLineNumber |-> modifiedLineNumber, result |-> result]

\* one iteration of the while loop
LoopIteration ==
    /\ pc = "while"
    /\ LoopCond(original, modified, originalIndex, modifiedIndex)
    /\ LET next == LoopBody(original, modified, comparisonType, Locals)
       IN  /\ originalIndex' = next.originalIndex
           /\ modifiedIndex' = next.modifiedIndex
           /\ originalLineNumber' = next.originalLineNumber
           /\ modifiedLineNumber' = next.modifiedLineNumber
           /\ result' = next.result
    /\ UNCHANGED <<uiVars, copyVars, original, modified, blocks, pc>>

\* the loop condition fails: return result
LoopReturn ==
    /\ pc = "while"
    /\ ~LoopCond(original, modified, originalIndex, modifiedIndex)
    /\ pc' = "return"
    /\ UNCHANGED <<uiVars, copyVars, original, modified, originalIndex, modifiedIndex,
                   originalLineNumber, modifiedLineNumber, result, blocks>>

\* return groupDiffBlocks(diffLines)
GroupBlocks ==
    /\ pc = "return"
    /\ blocks' = groupDiffBlocks(result)
    /\ pc' = "done"
    /\ UNCHANGED <<uiVars, copyVars, original, modified, originalIndex, modifiedIndex,
                   originalLineNumber, modifiedLineNumber, result>>

NextLoop == LoopIteration \/ LoopReturn \/ GroupBlocks

SpecLoop == InitLoop /\ [][NextLoop]_vars

\* the callback is synchronous code: once entered it keeps executing
SpecLoopFair == SpecLoop /\ WF_vars(NextLoop)

----------------------------------------------------------------------------
(* Properties of computeDiff and groupDiffBlocks (under SpecLoop)          *)

\* the originalContent of the pairs that are not 'added', in output order
OriginalSide(P) ==
    LET kept == SelectSeq(P, LAMBDA line : line.type # "added")
    IN  [k \in 1..Len(kept) |-> kept[k].originalContent]

\* the modifiedContent of the pairs that are not 'removed', in output order
ModifiedSide(P) ==
    LET kept == SelectSeq(P, LAMBDA line : line.type # "removed")
    IN  [k \in 1..Len(kept) |-> kept[k].modifiedContent]

\* the empty placeholder on the exhausted side
Placeholders(P) ==
    \A k \in 1..Len(P) :
        /\ P[k].type = "added"   => P[k].originalContent = Empty
        /\ P[k].type = "removed" => P[k].modifiedContent = Empty

Returned == pc \in {"return", "done"}

\* C1: computeDiff conserves tokens. In every state of the loop the original
\* side of the pairs emitted so far is the prefix of original the cursor has
\* passed, and likewise for modified; once the loop has returned the two
\* sides are exactly original and modified; 'added' pairs carry "" as
\* originalContent and 'removed' pairs "" as modifiedContent.
C1_TokensConserved ==
    /\ OriginalSide(result) = SubSeq(original, 1, originalIndex)
    /\ ModifiedSide(result) = SubSeq(modified, 1, modifiedIndex)
    /\ Placeholders(result)
    /\ Returned => /\ OriginalSide(result) = original
                   /\ ModifiedSide(result) = modified

\* a run that removed tokens past the end of modified and paired a differing token
C1_Witness ==
    /\ pc = "done"
    /\ \E k \in 1..Len(result) : result[k].type = "removed" /\ result[k].originalContent # Empty
    /\ \E k \in 1..Len(result) : result[k].type = "modified"
    /\ \E k \in 1..Len(result) : result[k].type = "unchanged"

\* the pair the positional rule gives at 0-based index k
PositionalType(O, M, k) ==
    IF k >= Len(O) THEN "added"
    ELSE IF k >= Len(M) THEN "removed"
    ELSE IF O[k + 1] = M[k + 1] THEN "unchanged"
    ELSE "modified"

RECURSIVE Flatten(_, _)
\* the lines of the blocks from index on, concatenated in block order
Flatten(bs, index) ==
    IF index > Len(bs) THEN << >> ELSE bs[index].lines \o Flatten(bs, index + 1)

\* C4: grouping round-trip. The lines of the blocks groupDiffBlocks returns,
\* concatenated in block order, are exactly the pairs it was given.
C4_GroupingRoundTrip ==
    pc = "done" => Flatten(blocks, 1) = result

\* a grouping into three blocks
C4_Witness ==
    /\ pc = "done"
    /\ Len(blocks) = 3
    /\ Len(result) = 3

\* modified is original with one line inserted at 0-based index p
IsInsertionAt(O, M, p) ==
    /\ Len(M) = Len(O) + 1
    /\ \A k \in 1..p : M[k] = O[k]
    /\ \A k \in (p + 2)..Len(M) : M[k] = O[k - 1]

\* C9 as stated: after an insertion at p < |O| under Lines, every pair at an
\* index k with p <= k < |O| is 'modified'.
C9_ShiftedAllModified ==
    (pc = "done" /\ comparisonType = "Lines") =>
        \A p \in 0..(Len(original) - 1) :
            IsInsertionAt(original, modified, p) =>
                \A k \in p..(Len(original) - 1) : result[k + 1].type = "modified"

\* the line that an insertion of line at p puts opposite original[k]
Opposite(O, line, p, k) == IF k = p THEN line ELSE O[k]

\* C9 amended: after an insertion at p < |O| under Lines, the pair at an index
\* k with p <= k < |O| is 'modified' exactly when the original line at k
\* differs from the line now opposite it (the inserted line at k = p, the
\* original line k - 1 after it), and 'unchanged' when the two are equal.
C9_ShiftedModifiedUnlessEqual ==
    (pc = "done" /\ comparisonType = "Lines") =>
        \A p \in 0..(Len(original) - 1) :
            IsInsertionAt(original, modified, p) =>
                \A k \in p..(Len(original) - 1) :
                    result[k + 1].type =
                        IF original[k + 1] # Opposite(original, modified[p + 1], p, k)
                        THEN "modified" ELSE "unchanged"

\* an insertion after which one shifted line is 'modified' and one 'unchanged'
C9_Witness ==
    /\ pc = "done"
    /\ comparisonType = "Lines"
    /\ \E p \in 0..(Len(original) - 1) :
          /\ IsInsertionAt(original, modified, p)
          /\ \E k \in p..(Len(original) - 1) : result[k + 1].type = "modified"
          /\ \E k \in p..(Len(original) - 1) : result[k + 1].type = "unchanged"

Coarse(line) == IF line.type = "unchanged" THEN "unchanged" ELSE "changed"

----------------------------------------------------------------------------
(* Properties of the rendered component (under Spec)                       *)

\* the pairs of all blocks, in order
LinesOf(diff) == Flatten(diff, 1)

AllOfType(P, t) == \A k \in 1..Len(P) : P[k].type = t

\* C3: idempotence. For every text A and granularity G, aligning
\* tokenize(A, G) with itself yields only 'unchanged' pairs: computeDiff on
\* splitText(A, G) twice for each text held under the selected granularity,
\* the rendered diffResult when both textareas hold the same text, and both
\* panels of the second variant, whose two sides are always the same text
\* when query1 = query2.
C3_Idempotent ==
    /\ mounted = Main =>
          /\ \A A \in {originalSQL, modifiedSQL} :
                LET tokens == splitText(A, comparisonType)
                IN  AllOfType(computeDiff(tokens, tokens, comparisonType), "unchanged")
          /\ originalSQL = modifiedSQL =>
                /\ AllOfType(LinesOf(diffResult), "unchanged")
                /\ AllOfType(diffResult, "unchanged")
    /\ mounted = Alt =>
          /\ \A A \in {query1, query2} :
                LET d == DiffResult2Of(A, A, splitType)
                IN  AllOfType(d.diff1 \o d.diff2, "unchanged")
          /\ query1 = query2 =>
                AllOfType(diffResult2.diff1 \o diffResult2.diff2, "unchanged")

\* the same three-character text on both sides, compared by words
C3_Witness ==
    /\ mounted = Main
    /\ originalSQL = modifiedSQL
    /\ Len(originalSQL) = 3
    /\ comparisonType = "Words"
    /\ Len(diffResult) = 1
    /\ Len(diffResult[1].lines) = 3

\* C5: boundary behaviour of splitText then computeDiff, for every
\* granularity: empty original and non-empty modified gives only 'added'
\* pairs, empty modified and non-empty original only 'removed' pairs, and two
\* empty texts the empty sequence.
C5_EmptySideBoundary ==
    mounted = Main =>
        /\ (originalSQL = Empty /\ modifiedSQL # Empty)
               => AllOfType(LinesOf(diffResult), "added")
        /\ (modifiedSQL = Empty /\ originalSQL # Empty)
               => AllOfType(LinesOf(diffResult), "removed")
        /\ (originalSQL = Empty /\ modifiedSQL = Empty) => diffResult = << >>

\* the positions where a maximal run of non-whitespace characters starts
RunStarts(text) ==
    {i \in 1..Len(text) : ~IsSpace(text[i]) /\ (i = 1 \/ IsSpace(text[i - 1]))}

\* the position where the run starting at i ends
RunEnd(text, i) ==
    CHOOSE j \in i..Len(text) :
        /\ \A m \in i..j : ~IsSpace(text[m])
        /\ j = Len(text) \/ IsSpace(text[j + 1])

\* the maximal runs of non-whitespace characters of text, in order
NonSpaceRuns(text) ==
    LET starts == RunStarts(text)
        nth(n) == CHOOSE i \in starts : Cardinality({j \in starts : j < i}) = n - 1
    IN  [n \in 1..Cardinality(starts) |-> SubSeq(text, nth(n), RunEnd(text, nth(n)))]

\* C6: under Words granularity splitText returns exactly the maximal runs of
\* non-whitespace characters of the text, in order, in both variants of the
\* component.
C6_WordsAreNonSpaceRuns ==
    /\ mounted = Main =>
          \A A \in {originalSQL, modifiedSQL} : splitText(A, "Words") = NonSpaceRuns(A)
    /\ mounted = Alt =>
          \A A \in {query1, query2} : splitText2(A, "Words") = NonSpaceRuns(A)

\* the number of pairs of type t in P
CountOfType(P, t) == Cardinality({k \in 1..Len(P) : P[k].type = t})

\* what computeDiff returns for the current inputs, before grouping
Ungrouped ==
    computeDiff(splitText(originalSQL, comparisonType),
                splitText(modifiedSQL, comparisonType), comparisonType)

\* C7: statistics. stats.added, stats.removed and stats.modified are the
\* numbers of 'added', 'removed' and 'modified' pairs of the ungrouped
\* computeDiff output for the current inputs, all 0 when both texts are
\* empty, and the blocks shown are still the grouping of that output.
C7_StatsCountPairs ==
    mounted = Main =>
        /\ stats.added = CountOfType(Ungrouped, "added")
        /\ stats.removed = CountOfType(Ungrouped, "removed")
        /\ stats.modified = CountOfType(Ungrouped, "modified")
        /\ (originalSQL = Empty /\ modifiedSQL = Empty) =>
               stats = [added |-> 0, removed |-> 0, modified |-> 0]
        /\ diffResult = DiffResultOf(originalSQL, modifiedSQL, comparisonType)
        /\ (originalSQL # Empty \/ modifiedSQL # Empty) =>
               LinesOf(diffResult) = Ungrouped

\* two changed blocks around an unchanged one, and a non-zero count
C7_Witness ==
    /\ mounted = Main
    /\ Len(diffResult) = 3
    /\ diffResult[1].type = "changed"
    /\ stats.modified = 2

----------------------------------------------------------------------------
(* Properties of handleCopy (under SpecCopy)                               *)

\* the alerts with this message shown for invocation i
AlertsFor(i, message) ==
    Cardinality({k \in 1..Len(alerts) : alerts[k] = [copy |-> i, message |-> message]})

\* every failed copy showed one failure alert and no success alert, and no
\* rejection escaped a handler
FailuresContained ==
    /\ unhandled = << >>
    /\ \A i \in 1..Len(copies) :
          copies[i] = "rejected" => AlertsFor(i, Failed) = 1 /\ AlertsFor(i, Copied) = 0

\* a step of a copy action: an invocation starts or settles
CopyStep == copies' # copies

\* C8: clipboard failure is contained. After every step of a copy action
\* each failed copy has shown exactly one failure alert and no success alert
\* and no rejection has escaped; and a step of a copy action, successful or
\* failed, leaves the two texts, the granularity, the show-unchanged toggle
\* and the computed diff (and statistics) as they were.
C8_CopyFailureContained ==
    [][CopyStep => (FailuresContained' /\ UNCHANGED uiVars)]_vars

\* one copy failed and showed its alert, another succeeded, texts are shown
C8_Witness ==
    /\ mounted = Main
    /\ modifiedSQL # Empty
    /\ copies = <<"rejected", "fulfilled">>
    /\ alerts = <<[copy |-> 2, message |-> Copied], [copy |-> 1, message |-> Failed]>>
    /\ consoleErrors = <<1>>

----------------------------------------------------------------------------
(* Position counters and termination of computeDiff (under SpecLoop)       *)

Min(a, b) == IF a <= b THEN a ELSE b

\* C11: position counters. Under Lines the k-th pair (0-based) carries
\* originalLineNumber = min(k, |O|) + 1 and modifiedLineNumber =
\* min(k, |M|) + 1, and each counter is always one more than its cursor (it
\* starts at 1 and moves exactly when its cursor does); under Words and
\* Characters the counters stay at 1 and every pair carries 1 and 1.
C11_PositionCounters ==
    /\ comparisonType = "Lines" =>
          /\ originalLineNumber = originalIndex + 1
          /\ modifiedLineNumber = modifiedIndex + 1
          /\ \A k \in 0..(Len(result) - 1) :
                /\ result[k + 1].originalLineNumber = Min(k, Len(original)) + 1
                /\ result[k + 1].modifiedLineNumber = Min(k, Len(modified)) + 1
    /\ comparisonType # "Lines" =>
          /\ originalLineNumber = 1
          /\ modifiedLineNumber = 1
          /\ \A k \in 1..Len(result) :
                /\ result[k].originalLineNumber = 1
                /\ result[k].modifiedLineNumber = 1

\* under Lines, a third pair emitted after original ran out at one line
C11_Witness ==
    /\ pc = "done"
    /\ comparisonType = "Lines"
    /\ Len(original) = 1
    /\ Len(result) = 3
    /\ result[3].originalLineNumber = 2
    /\ result[3].modifiedLineNumber = 3

\* the 'added' and 'removed' pairs of P form a suffix of it
ExhaustedSuffix(P) ==
    \A k \in 1..Len(P) :
        P[k].type \in {"added", "removed"} =>
            \A j \in k..Len(P) : P[j].type \in {"added", "removed"}

\* the cursors stay within their sequences and no more pairs are emitted
\* than the longer sequence has tokens
WithinBounds ==
    /\ originalIndex \in 0..Len(original)
    /\ modifiedIndex \in 0..Len(modified)
    /\ Len(result) <= Max(Len(original), Len(modified))

\* what the loop has produced when it has returned
SizeAtReturn ==
    /\ Len(result) = Max(Len(original), Len(modified))
    /\ CountOfType(result, "added") = Max(0, Len(modified) - Len(original))
    /\ CountOfType(result, "removed") = Max(0, Len(original) - Len(modified))
    /\ CountOfType(result, "added") = 0 \/ CountOfType(result, "removed") = 0
    /\ ExhaustedSuffix(result)

\* a step that is one iteration of the while loop
IsIteration == pc = "while" /\ pc' = "while"

\* what one iteration does to the cursors and to result
IterationProgress ==
    /\ originalIndex' \in {originalIndex, originalIndex + 1}
    /\ modifiedIndex' \in {modifiedIndex, modifiedIndex + 1}
    /\ originalIndex' > originalIndex \/ modifiedIndex' > modifiedIndex
    /\ Len(result') = Len(result) + 1

\* C12: termination and output size. Every iteration of the while loop
\* advances at least one cursor and emits one pair, no cursor passes the
\* length of its sequence, and the loop returns, after exactly
\* max(|O|, |M|) iterations and pairs, with max(0, |M| - |O|) 'added' and
\* max(0, |O| - |M|) 'removed' pairs, never both kinds, all at the end.
C12_LoopTerminates ==
    /\ [](WithinBounds /\ (Returned => SizeAtReturn))
    /\ [][IsIteration => IterationProgress]_vars
    /\ <>(pc = "done")

\* a returned loop that ran three iterations and ended with two 'added' pairs
C12_Witness ==
    /\ pc = "done"
    /\ Len(original) = 1
    /\ Len(modified) = 3
    /\ Len(result) = 3
    /\ result[2].type = "added"
    /\ result[3].type = "added"

====
